---- MODULE Spec2Model ----
(***************************************************************************)
(* Request orchestrator of the server-actions library: the useSAR hook     *)
(* (src/src/index.ts) as a state machine.  One session is one mounted      *)
(* hook instance.  React state (loading, error, data) is written by the    *)
(* setters at once; what a callback sees of it is the snapshot taken by    *)
(* the last render (closureLoading, condition), because execute is a       *)
(* useCallback closure over the values of the render that created it.      *)
(* Time is counted in ticks; one tick is 1000 ms.                          *)
(* The codec of the library (src/src/utils/transform.ts) is modelled as    *)
(* operators on values and character strings; CodecSpec runs a value the   *)
(* caller builds through objectToFormData and formDataToObject.            *)
(***************************************************************************)
EXTENDS Integers, Sequences, FiniteSets, TLC

\* ---------------------------------------------------------------- bounds
MaxRequests == 2
MaxTime == 3

\* ------------------------------------------------------- program values
Undef == "undefined"
NoRef == 0
dedupingInterval == 2
StartTime == dedupingInterval
EmptyPayload == "{}"
OperationFailed == "Operation failed"
ErrorProcessingRequest == "Error processing request"

\* ----------------------------------------------------------- input sets
Payloads == {"p1", "p2"}
DataVals == {"d1", "d2"}
Messages == {"", "boom"}
CacheTimes == {0, 2}
Conditions == {Undef, "true", "false"}
UpdateFns == {"keep", "clear", "set"}
Outcomes ==
  [kind : {"success"}, val : DataVals]
    \cup [kind : {"failure"}, val : Messages]
    \cup [kind : {"throw"}, val : {"boom"}]

VARIABLES
  loading, error, data,
  lastRequestDataRef, abortControllerRef, lastRequestTimeRef, cacheTimeoutRef,
  isMountedRef,
  condition, closureLoading,
  cacheTime,
  aborted, inflight, pendingTimers, nextId,
  now, lifecycle,
  actionCalls, onSuccessCalls, onErrorCalls,
  committedBy, lastEvent,
  codecPhase, codecValue, codecFormData, codecResult, codecPrototype,
  wrapOutcome, wrapResponse

stateVars == <<loading, error, data>>
refVars == <<lastRequestDataRef, abortControllerRef, lastRequestTimeRef,
             cacheTimeoutRef, isMountedRef>>
closureVars == <<condition, closureLoading>>
optionVars == <<cacheTime>>
envVars == <<aborted, inflight, pendingTimers, nextId>>
logVars == <<actionCalls, onSuccessCalls, onErrorCalls>>
ghostVars == <<committedBy>>
hookVars == <<stateVars, refVars, closureVars, optionVars, envVars, logVars,
              ghostVars, now, lifecycle, lastEvent>>
codecVars ==
  <<codecPhase, codecValue, codecFormData, codecResult, codecPrototype>>
wrapVars == <<wrapOutcome, wrapResponse>>
vars == <<hookVars, codecVars, wrapVars>>

\* the last operation or event of the session (a re-render and the passing
\* of time are not recorded): the operation, the request it concerned, what
\* happened (for a call of execute how it ended, for a returning action the
\* kind of its result), the value that came in or went out (the payload
\* sent to the action, the payload of a call the deduplication guard
\* dropped, the result's data or message, the value mutated to) and the
\* argument of the callback the step invoked, if it invoked one
NoCall == "no call"

\* variant: execute throws the message of a failed request
settlement_Rethrow(op, effect) ==
  IF effect \in {"gated", "deduped", "success"} THEN "resolved"
  ELSE IF effect = "failure" THEN "rejected"
  ELSE IF effect = "accepted" THEN "pending"
  ELSE "none"

\* the promise of the call the event belongs to: execute returns at the
\* gate and at the deduplication guard, awaits the action once the call is
\* accepted, and returns after the await on every path, its catch block
\* not throwing again
settlement(op, effect) ==
  IF effect \in {"gated", "deduped", "success", "failure"} THEN "resolved"
  ELSE IF effect = "accepted" THEN "pending"
  ELSE "none"

Event(op, req, effect, arg, cb) ==
  [op |-> op, req |-> req, effect |-> effect, arg |-> arg, cb |-> cb,
   settled |-> settlement(op, effect)]

\* variant: clearing a timer has no effect
clearTimeout_Noop(timers, id) == timers

\* clearTimeout(id): the timer with that id, if still pending, is dropped
clearTimeout(timers, id) == {t \in timers : t.id # id}

\* variant: the previous controller is never signalled
abort_Skip(set, ref) == set

\* AbortController.abort() on the controller the ref holds, if any
abort(set, ref) == IF ref # NoRef THEN set \cup {ref} ELSE set

\* Object.prototype of a process in which no property was added to it
ObjectPrototype == [t |-> "object", v |-> 0, p |-> <<>>]

\* the hook after its first render, before any effect has run
HookInit ==
  /\ loading = FALSE
  /\ error = Undef
  /\ data = Undef
  /\ lastRequestDataRef = Undef
  /\ abortControllerRef = NoRef
  /\ lastRequestTimeRef = 0
  /\ cacheTimeoutRef = NoRef
  /\ isMountedRef = FALSE
  /\ condition \in Conditions
  /\ closureLoading = FALSE
  /\ cacheTime \in CacheTimes
  /\ aborted = {}
  /\ inflight = {}
  /\ pendingTimers = {}
  /\ nextId = 1
  /\ now = StartTime
  /\ lifecycle = "rendered"
  /\ actionCalls = 0
  /\ onSuccessCalls = 0
  /\ onErrorCalls = 0
  /\ committedBy = NoRef
  /\ lastEvent = Event("init", NoRef, "none", Undef, NoCall)

\* a session of the hook: the codec variables are at rest
Init ==
  /\ HookInit
  /\ codecPhase = "idle"
  /\ codecValue = Undef
  /\ codecFormData = <<>>
  /\ codecResult = Undef
  /\ codecPrototype = ObjectPrototype
  /\ wrapOutcome = Undef
  /\ wrapResponse = Undef

\* ------------------------------------------------------------- execute
\* variant: execute has no condition gate
Gated_Never == FALSE

\* the condition gate of execute
Gated == condition # Undef /\ condition = "false"

\* the deduplication guard of execute, evaluated on the closure's loading
Deduped == now - lastRequestTimeRef < dedupingInterval /\ closureLoading

\* variant: the payload is stored after the deduplication guard
Remember_AfterDedup(requestData) ==
  IF requestData # Undef /\ ~Deduped THEN requestData ELSE lastRequestDataRef

\* if (requestData) lastRequestDataRef.current = requestData
Remember(requestData) ==
  IF requestData # Undef THEN requestData ELSE lastRequestDataRef

\* variant: nothing stands in for a payload that is missing
SentPayload_NoDefault(requestData) ==
  IF requestData # Undef THEN requestData ELSE Remember(requestData)

\* requestData || lastRequestDataRef.current || {}
SentPayload(requestData) ==
  IF requestData # Undef THEN requestData
  ELSE IF Remember(requestData) # Undef THEN Remember(requestData)
  ELSE EmptyPayload

\* one call of execute(requestData), up to its await
execute(requestData, op) ==
  /\ nextId <= MaxRequests
  /\ IF Gated
     THEN /\ lastEvent' = Event(op, NoRef, "gated", Undef, NoCall)
          /\ UNCHANGED <<stateVars, lastRequestDataRef, abortControllerRef,
                         lastRequestTimeRef, aborted, inflight, nextId,
                         actionCalls>>
     ELSE /\ lastRequestDataRef' = Remember(requestData)
          /\ IF Deduped
             THEN /\ lastEvent' = Event(op, NoRef, "deduped", requestData, NoCall)
                  /\ UNCHANGED <<stateVars, abortControllerRef,
                                 lastRequestTimeRef, aborted, inflight,
                                 nextId, actionCalls>>
             ELSE /\ lastRequestTimeRef' = now
                  /\ aborted' = abort(aborted, abortControllerRef)
                  /\ abortControllerRef' = nextId
                  /\ nextId' = nextId + 1
                  /\ loading' = TRUE
                  /\ error' = Undef
                  /\ UNCHANGED data
                  /\ inflight' = inflight \cup {[id |-> nextId]}
                  /\ actionCalls' = actionCalls + 1
                  /\ lastEvent' =
                       Event(op, nextId, "accepted", SentPayload(requestData), NoCall)
  /\ UNCHANGED <<cacheTimeoutRef, closureVars, optionVars, pendingTimers,
                 now, onSuccessCalls, onErrorCalls, ghostVars>>

Live == lifecycle = "mounted"

Execute ==
  /\ UNCHANGED <<codecVars, wrapVars>>
  /\ Live
  /\ \E p \in Payloads \cup {Undef} : execute(p, "execute")
  /\ UNCHANGED <<isMountedRef, lifecycle>>
\* variant: refetch answers from the cache while data is defined
Refetch_Cached ==
  /\ UNCHANGED <<codecVars, wrapVars>>
  /\ Live
  /\ IF data # Undef
     THEN /\ nextId <= MaxRequests
          /\ lastEvent' = Event("refetch", NoRef, "cached", Undef, NoCall)
          /\ UNCHANGED <<stateVars, lastRequestDataRef, abortControllerRef,
                         lastRequestTimeRef, cacheTimeoutRef, closureVars,
                         optionVars, envVars, logVars, ghostVars, now>>
     ELSE execute(lastRequestDataRef, "refetch")
  /\ UNCHANGED <<isMountedRef, lifecycle>>

\* refetch() is execute(lastRequestDataRef.current)
Refetch ==
  /\ UNCHANGED <<codecVars, wrapVars>>
  /\ Live
  /\ execute(lastRequestDataRef, "refetch")
  /\ UNCHANGED <<isMountedRef, lifecycle>>

\* a visibility or focus event while the document is visible: the listener
\* calls refetch; without revalidateOnFocus no listener is registered
onFocus(revalidateOnFocus) ==
  IF revalidateOnFocus
  THEN /\ execute(lastRequestDataRef, "focus")
       /\ UNCHANGED <<isMountedRef, lifecycle>>
  ELSE UNCHANGED vars

\* a visibility/focus signal while the listeners are registered; without
\* them a signal is no step of the session
Focus ==
  /\ UNCHANGED <<codecVars, wrapVars>>
  /\ Live
  /\ onFocus(TRUE)

\* variant: the effect executes whenever the condition is not false
MountExecutes_Unforced(executeOnMount, revalidateOnMount) ==
  /\ executeOnMount
  /\ condition # "false"

\* the test of the initial-execution effect
MountExecutes(executeOnMount, revalidateOnMount) ==
  /\ executeOnMount
  /\ \/ (revalidateOnMount /\ condition = Undef)
     \/ condition = "true"

\* the payloads a host passes as initialExecuteData
InitialPayloads == {Undef, "p1"}

\* the initial-execution effect under the options of the render it runs
\* after; it runs again when its dependencies change and then returns at
\* once
initialExecution(executeOnMount, revalidateOnMount, initialExecuteData) ==
  IF isMountedRef
  THEN UNCHANGED vars
  ELSE /\ isMountedRef' = TRUE
       /\ lifecycle' = "mounted"
       /\ IF MountExecutes(executeOnMount, revalidateOnMount)
          THEN execute(initialExecuteData, "mount")
          ELSE /\ lastEvent' =
                    Event("mount", NoRef,
                          IF executeOnMount THEN "skipped" ELSE "disabled",
                          Undef, NoCall)
               /\ UNCHANGED <<stateVars, lastRequestDataRef,
                              abortControllerRef, lastRequestTimeRef,
                              cacheTimeoutRef, closureVars, optionVars,
                              envVars, logVars, ghostVars, now>>

\* the first run of the effects, after the first render; the runs after
\* the later renders find isMountedRef set and are no step of the session
Mount ==
  /\ UNCHANGED <<codecVars, wrapVars>>
  /\ lifecycle = "rendered"
  /\ \E executeOnMount \in BOOLEAN, revalidateOnMount \in BOOLEAN,
        initialExecuteData \in InitialPayloads :
       initialExecution(executeOnMount, revalidateOnMount, initialExecuteData)

\* a re-render: the callbacks are re-created over the current state and
\* the condition the host passes now
Render ==
  /\ UNCHANGED <<codecVars, wrapVars>>
  /\ Live
  /\ \E c \in Conditions :
       /\ condition' = c
       /\ closureLoading' = loading
       /\ (c # condition \/ closureLoading # loading)
  /\ UNCHANGED <<stateVars, refVars, optionVars, envVars, logVars, ghostVars,
                 now, lifecycle, lastEvent>>

\* ------------------------------------------------- the action's result
\* serverActionRequest: the action's result, a throw turned into a Failure
serverActionRequest(outcome) ==
  IF outcome.kind = "throw"
  THEN [ok |-> FALSE, message |-> ErrorProcessingRequest, data |-> Undef]
  ELSE IF outcome.kind = "success"
  THEN [ok |-> TRUE, message |-> "ok", data |-> outcome.val]
  ELSE [ok |-> FALSE, message |-> outcome.val, data |-> Undef]

\* variant: the message is stored without the default
errorMessage_Raw(response) == response.message

\* response.message || "Operation failed"
errorMessage(response) ==
  IF response.message # "" THEN response.message ELSE OperationFailed

\* variant: the timer is set without the delay
setCacheTimeout_NoDelay(timers, owner) ==
  clearTimeout(timers, cacheTimeoutRef)
    \cup {[id |-> owner, setAt |-> now, deadline |-> now]}

\* variant: the previous timer is not cleared before the new one is set
setCacheTimeout_NoClear(timers, owner) ==
  timers
    \cup {[id |-> owner, setAt |-> now, deadline |-> now + cacheTime]}

\* the timers pending after the Success of request `owner` sets the cache
\* timeout; a timer is named after the request whose Success set it
setCacheTimeout(timers, owner) ==
  clearTimeout(timers, cacheTimeoutRef)
    \cup {[id |-> owner, setAt |-> now, deadline |-> now + cacheTime]}

\* variant: the check reads the controller the ref holds now instead of the
\* signal the call captured
Superseded_Current(r) == abortControllerRef \in aborted

\* if (signal.aborted) return, and the guard of the finally block
Superseded(r) == r.id \in aborted

\* variant: the finally block does not clear loading
finallyLoading_Keep(r) == loading

\* finally { if (!signal.aborted) setLoading(false) }
finallyLoading(r) == IF Superseded(r) THEN loading ELSE FALSE

\* the continuation of execute after its await, with the signal it captured
Resume(r, response) ==
  IF Superseded(r)
  THEN /\ lastEvent' =
            Event("resolve", r.id, IF response.ok THEN "success" ELSE "failure",
                  IF response.ok THEN response.data ELSE response.message,
                  NoCall)
       /\ loading' = finallyLoading(r)
       /\ UNCHANGED <<error, data, cacheTimeoutRef, pendingTimers,
                      onSuccessCalls, onErrorCalls, ghostVars>>
  ELSE IF response.ok
  THEN /\ data' = response.data
       /\ onSuccessCalls' = onSuccessCalls + 1
       /\ IF cacheTime > 0
          THEN /\ pendingTimers' = setCacheTimeout(pendingTimers, r.id)
               /\ cacheTimeoutRef' = r.id
          ELSE UNCHANGED <<pendingTimers, cacheTimeoutRef>>
       /\ loading' = finallyLoading(r)
       /\ committedBy' = r.id
       /\ lastEvent' =
            Event("resolve", r.id, "success", response.data, response.data)
       /\ UNCHANGED <<error, onErrorCalls>>
  ELSE /\ error' = errorMessage(response)
       /\ onErrorCalls' = onErrorCalls + 1
       /\ loading' = finallyLoading(r)
       /\ lastEvent' =
            Event("resolve", r.id, "failure", response.message,
                  errorMessage(response))
       /\ UNCHANGED <<data, cacheTimeoutRef, pendingTimers,
                      onSuccessCalls, ghostVars>>

\* the awaited action returns (or throws) for one request in flight
Resolve ==
  /\ UNCHANGED <<codecVars, wrapVars>>
  /\ \E r \in inflight, o \in Outcomes :
       /\ inflight' = inflight \ {r}
       /\ Resume(r, serverActionRequest(o))
  /\ UNCHANGED <<lastRequestDataRef, abortControllerRef, lastRequestTimeRef,
                 isMountedRef, closureVars, optionVars, aborted, nextId,
                 actionCalls, now, lifecycle>>

\* --------------------------------------------------- other operations
Reset ==
  /\ UNCHANGED <<codecVars, wrapVars>>
  /\ Live
  /\ data' = Undef
  /\ error' = Undef
  /\ lastRequestDataRef' = Undef
  /\ aborted' = abort(aborted, abortControllerRef)
  /\ pendingTimers' = clearTimeout(pendingTimers, cacheTimeoutRef)
  /\ lastEvent' = Event("reset", NoRef, "none", Undef, NoCall)
  /\ UNCHANGED <<loading, abortControllerRef, lastRequestTimeRef,
                 cacheTimeoutRef, isMountedRef, closureVars, optionVars,
                 inflight, nextId, logVars, ghostVars, now,
                 lifecycle>>
\* variant: mutate also signals the controller of the request in flight
Mutate_Aborts ==
  /\ UNCHANGED <<codecVars, wrapVars>>
  /\ Live
  /\ \E v \in DataVals \cup {Undef} :
       /\ data' = v
       /\ lastEvent' = Event("mutate", NoRef, "none", v, NoCall)
  /\ aborted' = abort(aborted, abortControllerRef)
  /\ pendingTimers' = clearTimeout(pendingTimers, cacheTimeoutRef)
  /\ cacheTimeoutRef' = NoRef
  /\ UNCHANGED <<loading, error, lastRequestDataRef, abortControllerRef,
                 lastRequestTimeRef, isMountedRef, closureVars, optionVars,
                 inflight, nextId, logVars, ghostVars, now, lifecycle>>

\* variant: mutate sets the data but leaves the cache timer running
Mutate_KeepTimer ==
  /\ UNCHANGED <<codecVars, wrapVars>>
  /\ Live
  /\ \E v \in DataVals \cup {Undef} :
       /\ data' = v
       /\ lastEvent' = Event("mutate", NoRef, "none", v, NoCall)
  /\ UNCHANGED <<loading, error, refVars, closureVars, optionVars,
                 envVars, logVars, ghostVars, now, lifecycle>>

Mutate ==
  /\ UNCHANGED <<codecVars, wrapVars>>
  /\ Live
  /\ \E v \in DataVals \cup {Undef} :
       /\ data' = v
       /\ lastEvent' = Event("mutate", NoRef, "none", v, NoCall)
  /\ pendingTimers' = clearTimeout(pendingTimers, cacheTimeoutRef)
  /\ cacheTimeoutRef' = NoRef
  /\ UNCHANGED <<loading, error, lastRequestDataRef, abortControllerRef,
                 lastRequestTimeRef, isMountedRef, closureVars, optionVars,
                 aborted, inflight, nextId, logVars, ghostVars,
                 now, lifecycle>>

\* the value an updater computes when it replaces the data
Optimistic == "optimistic"

\* the updater functions a caller passes to optimisticMutate
Apply(f, current) ==
  CASE f = "keep" -> current
    [] f = "clear" -> Undef
    [] OTHER -> Optimistic

\* variant: optimisticMutate clears the cache timer as mutate does
optimisticMutate_ClearsTimer(updateFn) ==
  /\ data' = Apply(updateFn, data)
  /\ lastEvent' = Event("optimisticMutate", NoRef, "none", Undef, NoCall)
  /\ pendingTimers' = clearTimeout(pendingTimers, cacheTimeoutRef)
  /\ cacheTimeoutRef' = NoRef
  /\ UNCHANGED <<loading, error, lastRequestDataRef, abortControllerRef,
                 lastRequestTimeRef, isMountedRef, closureVars, optionVars,
                 aborted, inflight, nextId, logVars, ghostVars, now,
                 lifecycle>>

\* variant: the updater is applied to the data of the first render
optimisticMutate_Stale(updateFn) ==
  /\ data' = Apply(updateFn, Undef)
  /\ lastEvent' = Event("optimisticMutate", NoRef, "none", Undef, NoCall)
  /\ UNCHANGED <<loading, error, refVars, closureVars, optionVars, envVars,
                 logVars, ghostVars, now, lifecycle>>

\* optimisticMutate(updateFn): the updater is applied to the current data
optimisticMutate(updateFn) ==
  /\ data' = Apply(updateFn, data)
  /\ lastEvent' = Event("optimisticMutate", NoRef, "none", Undef, NoCall)
  /\ UNCHANGED <<loading, error, refVars, closureVars, optionVars, envVars,
                 logVars, ghostVars, now, lifecycle>>

OptimisticMutate ==
  /\ UNCHANGED <<codecVars, wrapVars>>
  /\ Live
  /\ \E f \in UpdateFns : optimisticMutate(f)
\* variant: the expiry clears the error together with the data
TimerFire_ClearsError ==
  /\ UNCHANGED <<codecVars, wrapVars>>
  /\ \E t \in pendingTimers :
       /\ now >= t.deadline
       /\ pendingTimers' = pendingTimers \ {t}
       /\ lastEvent' = Event("expire", t.id, "none", Undef, NoCall)
  /\ data' = Undef
  /\ error' = Undef
  /\ UNCHANGED <<loading, refVars, closureVars, optionVars, aborted,
                 inflight, nextId, logVars, ghostVars, now,
                 lifecycle>>

\* the callback of the cache timeout
TimerFire ==
  /\ UNCHANGED <<codecVars, wrapVars>>
  /\ \E t \in pendingTimers :
       /\ now >= t.deadline
       /\ pendingTimers' = pendingTimers \ {t}
       /\ lastEvent' = Event("expire", t.id, "none", Undef, NoCall)
  /\ data' = Undef
  /\ UNCHANGED <<loading, error, refVars, closureVars, optionVars, aborted,
                 inflight, nextId, logVars, ghostVars, now,
                 lifecycle>>

\* variant: the cleanup clears the timer but does not signal the controller
Unmount_NoAbort ==
  /\ UNCHANGED <<codecVars, wrapVars>>
  /\ Live
  /\ lifecycle' = "unmounted"
  /\ pendingTimers' = clearTimeout(pendingTimers, cacheTimeoutRef)
  /\ lastEvent' = Event("unmount", NoRef, "none", Undef, NoCall)
  /\ UNCHANGED <<stateVars, refVars, closureVars, optionVars, aborted,
                 inflight, nextId, logVars, ghostVars, now>>

\* the cleanup of the unmount effect
Unmount ==
  /\ UNCHANGED <<codecVars, wrapVars>>
  /\ Live
  /\ lifecycle' = "unmounted"
  /\ aborted' = abort(aborted, abortControllerRef)
  /\ pendingTimers' = clearTimeout(pendingTimers, cacheTimeoutRef)
  /\ lastEvent' = Event("unmount", NoRef, "none", Undef, NoCall)
  /\ UNCHANGED <<stateVars, refVars, closureVars, optionVars, inflight,
                 nextId, logVars, ghostVars, now>>

\* the clock; it runs on past MaxTime only to let a pending timer expire
Tick ==
  /\ UNCHANGED <<codecVars, wrapVars>>
  /\ \/ now < MaxTime
     \/ \E t \in pendingTimers : t.deadline > now
  /\ now' = now + 1
  /\ UNCHANGED <<stateVars, refVars, closureVars, optionVars, envVars,
                 logVars, ghostVars, lifecycle, lastEvent>>

Next ==
  \/ Mount
  \/ Render
  \/ Execute
  \/ Refetch
  \/ Focus
  \/ Resolve
  \/ Reset
  \/ Mutate
  \/ OptimisticMutate
  \/ TimerFire
  \/ Unmount
  \/ Tick

Spec == Init /\ [][Next]_vars

\* ---------------------------------------------------------------- codec
\* Strings are sequences of characters, so that a key can be taken apart
\* and a value read as a number the way the code does it. The strings of
\* the model hold no character for which Number() accepts more than the
\* decimal integers with an optional sign and blanks around them (no
\* fraction, exponent, radix prefix or "Infinity").
Digits == <<"0", "1", "2", "3", "4", "5", "6", "7", "8", "9">>

IsDigit(c) == \E i \in DOMAIN Digits : Digits[i] = c

DigitValue(c) == (CHOOSE i \in DOMAIN Digits : Digits[i] = c) - 1

RECURSIVE TrimStart(_)
TrimStart(s) ==
  IF s # <<>> /\ Head(s) = " " THEN TrimStart(Tail(s)) ELSE s

RECURSIVE TrimEnd(_)
TrimEnd(s) ==
  IF s # <<>> /\ s[Len(s)] = " "
  THEN TrimEnd(SubSeq(s, 1, Len(s) - 1))
  ELSE s

\* the white space Number() strips from both ends of a string
Trim(s) == TrimEnd(TrimStart(s))

\* a decimal integer literal without sign
IsDigits(s) == s # <<>> /\ \A i \in DOMAIN s : IsDigit(s[i])

RECURSIVE DigitsValue(_)
DigitsValue(s) ==
  IF s = <<>> THEN 0
  ELSE 10 * DigitsValue(SubSeq(s, 1, Len(s) - 1)) + DigitValue(s[Len(s)])

\* variant: only strings of digits read as numbers
isNumeric_DigitsOnly(s) == IsDigits(s)

\* !isNaN(Number(s)) for a string s
isNumeric(s) ==
  LET t == Trim(s)
  IN \/ t = <<>>
     \/ IsDigits(t)
     \/ Len(t) > 1 /\ Head(t) \in {"+", "-"} /\ IsDigits(Tail(t))

\* Number(s) for a string s that isNumeric
Number(s) ==
  LET t == Trim(s)
  IN IF t = <<>> THEN 0
     ELSE IF Head(t) = "-" THEN 0 - DigitsValue(Tail(t))
     ELSE IF Head(t) = "+" THEN DigitsValue(Tail(t))
     ELSE DigitsValue(t)

\* String(n) for an integer n
RECURSIVE NatToString(_)
NatToString(n) ==
  IF n < 10 THEN <<Digits[n + 1]>>
  ELSE NatToString(n \div 10) \o <<Digits[(n % 10) + 1]>>

NumberToString(n) ==
  IF n < 0 THEN <<"-">> \o NatToString(0 - n) ELSE NatToString(n)

\* value.match(/^\d{4}-\d{2}-\d{2}T\d{2}:\d{2}:\d{2}/)
DatePattern ==
  <<"d", "d", "d", "d", "-", "d", "d", "-", "d", "d", "T",
    "d", "d", ":", "d", "d", ":", "d", "d">>

matchesDate(s) ==
  /\ Len(s) >= Len(DatePattern)
  /\ \A i \in DOMAIN DatePattern :
       IF DatePattern[i] = "d" THEN IsDigit(s[i]) ELSE s[i] = DatePattern[i]

\* the values of the program: a tag, the payload of a scalar and the
\* properties of an object or array, keyed by their names
NoProps == [k \in {} |-> 0]
Str(s) == [t |-> "string", v |-> s, p |-> NoProps]
Num(n) == [t |-> "number", v |-> n, p |-> NoProps]
Bool(b) == [t |-> "boolean", v |-> b, p |-> NoProps]
NaN == [t |-> "NaN", v |-> 0, p |-> NoProps]
Null == [t |-> "null", v |-> 0, p |-> NoProps]
Undefined == [t |-> "undefined", v |-> 0, p |-> NoProps]
DateOf(s) == [t |-> "date", v |-> s, p |-> NoProps]
FileOf(name) == [t |-> "file", v |-> name, p |-> NoProps]
Obj(props) == [t |-> "object", v |-> 0, p |-> props]
Arr(props) == [t |-> "array", v |-> 0, p |-> props]

\* a property name that is an array index: a canonical decimal numeral
IsIndex(k) == IsDigits(k) /\ NatToString(DigitsValue(k)) = k

\* the names of a set in ascending order of the index they denote
RECURSIVE Ascending(_)
Ascending(S) ==
  IF S = {} THEN <<>>
  ELSE LET k == CHOOSE x \in S :
                  \A y \in S : DigitsValue(x) <= DigitsValue(y)
       IN <<k>> \o Ascending(S \ {k})

\* the names of a set in the order they were created in; the model takes
\* one order for each set
RECURSIVE Inserted(_)
Inserted(S) ==
  IF S = {} THEN <<>>
  ELSE LET k == CHOOSE x \in S : TRUE
       IN <<k>> \o Inserted(S \ {k})

\* Object.keys(value): the indices in ascending order, then the other names
ObjectKeys(value) ==
  Ascending({k \in DOMAIN value.p : IsIndex(k)})
    \o Inserted({k \in DOMAIN value.p : ~IsIndex(k)})

\* the indices Array.prototype.forEach visits
ArrayIndices(value) == Ascending({k \in DOMAIN value.p : IsIndex(k)})

\* A Date is held as the ISO-8601 string of its instant, and the Date that
\* holds no instant as the empty string.
InvalidDate == DateOf(<<>>)

\* value.toISOString() for a Date that holds an instant
toISOString(value) == value.v

\* whether the month, day, hour, minute and second of a string that
\* matchesDate are in their ranges
inRange(s) ==
  /\ DigitsValue(SubSeq(s, 6, 7)) \in 1..12
  /\ DigitsValue(SubSeq(s, 9, 10)) \in 1..31
  /\ DigitsValue(SubSeq(s, 12, 13)) \in 0..23
  /\ DigitsValue(SubSeq(s, 15, 16)) \in 0..59
  /\ DigitsValue(SubSeq(s, 18, 19)) \in 0..59

\* new Date(s) for a string s that matchesDate, in a process whose local
\* time is UTC: the instant of a date-time in range, with or without
\* milliseconds and zone, and no instant for any other string (the strings
\* of the model write no 31st day of a shorter month and no hour 24)
newDate(s) ==
  LET n == Len(DatePattern)
  IN IF ~inRange(s) THEN InvalidDate
     ELSE IF Len(s) = n THEN DateOf(s \o <<".", "0", "0", "0", "Z">>)
     ELSE IF Len(s) = n + 1 /\ s[n + 1] = "Z"
     THEN DateOf(SubSeq(s, 1, n) \o <<".", "0", "0", "0", "Z">>)
     ELSE IF /\ Len(s) = n + 5
             /\ s[n + 1] = "."
             /\ IsDigits(SubSeq(s, n + 2, n + 4))
             /\ s[n + 5] = "Z"
     THEN DateOf(s)
     ELSE InvalidDate

\* String(value) for a scalar
String(value) ==
  CASE value.t = "string" -> value.v
    [] value.t = "number" -> NumberToString(value.v)
    [] value.t = "boolean" ->
         IF value.v THEN <<"t", "r", "u", "e">>
         ELSE <<"f", "a", "l", "s", "e">>
    [] value.t = "NaN" -> <<"N", "a", "N">>

\* one entry of a FormData
Entry(key, value) == [key |-> key, value |-> value]

\* appendToFormData(value, key) of objectToFormData, as the entries it
\* appends; forEachItem and forEachKey are its two loops over the names
\* still to visit
RECURSIVE appendToFormData(_, _)
RECURSIVE forEachItem(_, _, _)
RECURSIVE forEachKey(_, _, _)
forEachItem(value, key, indices) ==
  IF indices = <<>> THEN <<>>
  ELSE appendToFormData(value.p[Head(indices)],
                        key \o <<"[">> \o Head(indices) \o <<"]">>)
         \o forEachItem(value, key, Tail(indices))

forEachKey(value, key, names) ==
  IF names = <<>> THEN <<>>
  ELSE appendToFormData(value.p[Head(names)],
                        IF key # <<>>
                        THEN key \o <<".">> \o Head(names)
                        ELSE Head(names))
         \o forEachKey(value, key, Tail(names))

appendToFormData(value, key) ==
  IF value.t \in {"null", "undefined"} THEN <<Entry(key, Str(<<>>))>>
  ELSE IF value.t = "file" THEN <<Entry(key, value)>>
  ELSE IF value.t = "array" THEN forEachItem(value, key, ArrayIndices(value))
  ELSE IF value.t = "object" THEN forEachKey(value, key, ObjectKeys(value))
  ELSE IF value.t = "date" THEN <<Entry(key, Str(toISOString(value)))>>
  ELSE <<Entry(key, Str(String(value)))>>

\* objectToFormData(obj, prefix)
objectToFormData(obj, prefix) == forEachKey(obj, prefix, ObjectKeys(obj))

\* variant: a path is split at its dots only
Separators_DotOnly == {"."}

\* path.split(/[.\[\]]/).filter(Boolean): the non-empty pieces between the
\* separators, with cur the piece being read
Separators == {".", "[", "]"}

RECURSIVE splitPath(_, _)
splitPath(path, cur) ==
  IF path = <<>>
  THEN IF cur = <<>> THEN <<>> ELSE <<cur>>
  ELSE IF Head(path) \in Separators
  THEN (IF cur = <<>> THEN <<>> ELSE <<cur>>) \o splitPath(Tail(path), <<>>)
  ELSE splitPath(Tail(path), cur \o <<Head(path)>>)

\* the type inference of setNestedValue on the value of an entry
processedValue(value) ==
  IF value.t # "string" THEN value
  ELSE IF matchesDate(value.v) THEN newDate(value.v)
  ELSE IF isNumeric(value.v) /\ value.v # <<>> THEN Num(Number(value.v))
  ELSE IF value.v = <<"t", "r", "u", "e">> THEN Bool(TRUE)
  ELSE IF value.v = <<"f", "a", "l", "s", "e">> THEN Bool(FALSE)
  ELSE IF value.v = <<>> THEN Null
  ELSE value

\* the exception of `key in current` and of `current[key] = value` when
\* current is null, undefined or a primitive (the module is strict code)
TypeError == [t |-> "TypeError", v |-> 0, p |-> NoProps]

\* the values that have properties
IsObject(value) == value.t \in {"object", "array", "date", "file"}

\* variant: the assignment leaves current with that one property only
Put_Only(current, key, value) ==
  [current EXCEPT !.p = [k \in {key} |-> value]]

\* current with current[key] = value
Put(current, key, value) ==
  [current EXCEPT !.p = [k \in DOMAIN current.p \cup {key} |->
                           IF k = key THEN value ELSE current.p[k]]]

\* the name under which `current[undefined] = value` stores the value of a
\* path without pieces
UndefinedKey == <<"u", "n", "d", "e", "f", "i", "n", "e", "d">>

\* the name under which every object inherits the accessor of its prototype
ProtoKey == <<"_", "_", "p", "r", "o", "t", "o", "_", "_">>

\* what a walk leaves behind: the value current has become, the properties
\* added to Object.prototype, and whether no exception was thrown
Heap(current, proto, ok) == [current |-> current, proto |-> proto, ok |-> ok]

\* the loop and the final assignment of setNestedValue from the i-th key
\* on. `key in current` holds for an own property, for a property added to
\* Object.prototype and for `__proto__`, and current[key] is then the own
\* value, the inherited one or Object.prototype itself. The paths of the
\* model name `__proto__` as their first piece only and no other built-in
\* property, and go one level into Object.prototype.
RECURSIVE setFrom(_, _, _, _, _)
setFrom(current, proto, keys, i, value) ==
  IF ~IsObject(current) THEN Heap(current, proto, FALSE)
  ELSE IF i >= Len(keys)
  THEN Heap(Put(current,
                IF keys = <<>> THEN UndefinedKey ELSE keys[Len(keys)],
                value),
            proto, TRUE)
  ELSE LET key == keys[i]
           isNextKeyNumeric == isNumeric(keys[i + 1])
       IN IF key \in DOMAIN current.p
          THEN LET below == setFrom(current.p[key], proto, keys, i + 1, value)
               IN Heap(Put(current, key, below.current), below.proto,
                       below.ok)
          ELSE IF key = ProtoKey
          THEN LET below == setFrom(proto, proto, keys, i + 1, value)
               IN Heap(current, below.current, below.ok)
          ELSE IF key \in DOMAIN proto.p
          THEN LET below == setFrom(proto.p[key], proto, keys, i + 1, value)
               IN Heap(current, Put(below.proto, key, below.current),
                       below.ok)
          ELSE LET below == setFrom(IF isNextKeyNumeric THEN Arr(NoProps)
                                    ELSE Obj(NoProps),
                                    proto, keys, i + 1, value)
               IN Heap(Put(current, key, below.current), below.proto,
                       below.ok)

\* setNestedValue(obj, path, value), with Object.prototype as it is
setNestedValue(obj, proto, path, value) ==
  setFrom(obj, proto, splitPath(path, <<>>), 1, processedValue(value))

\* formDataToObject(formData): the entries are set one after the other
\* into an empty object, until one throws
RECURSIVE forEachEntry(_, _)
forEachEntry(heap, formData) ==
  IF formData = <<>> \/ ~heap.ok THEN heap
  ELSE forEachEntry(setNestedValue(heap.current, heap.proto,
                                   Head(formData).key, Head(formData).value),
                    Tail(formData))

\* the result or the exception of formDataToObject, and Object.prototype
\* after the call
formDataToObject(formData, proto) ==
  LET heap == forEachEntry(Heap(Obj(NoProps), proto, TRUE), formData)
  IN Heap(IF heap.ok THEN heap.current ELSE TypeError, heap.proto, heap.ok)

\* ------------------------------------------------------------ codec runs
\* A run of the codec takes one structured value, built by the caller,
\* through objectToFormData and the FormData through formDataToObject.
MaxDepth == 3

Jo == <<"J", "o">>
Thirty == <<"3", "0">>
Blank == <<" ">>
IsoDate ==
  <<"2", "0", "2", "3", "-", "1", "2", "-", "0", "1", "T",
    "1", "0", ":", "3", "0", ":", "0", "0", ".", "0", "0", "0", "Z">>

\* the scalars, the date and the file at the leaves of the values encoded
Leaves ==
  {Str(Jo), Str(Thirty), Str(<<"t", "r", "u", "e">>), Str(IsoDate),
   Str(<<>>), Str(Blank), Num(30), Num(0 - 5), Bool(FALSE), Null, Undefined,
   NaN, DateOf(IsoDate), FileOf(Jo)}

\* the names of the properties of the objects encoded
Keys == {<<"a">>, <<"b">>, <<"0">>, <<"a", ".", "b">>, <<>>}

\* the second property or element of a container that has two
SiblingKey == <<"a">>
SiblingLeaf == Num(1)
DottedKey == <<"a", ".", "b">>

\* an object of one or two properties and an array of one or two elements
Object1(k, a) == Obj([n \in {k} |-> a])
Object2(k, a, l, b) == Obj([n \in {k, l} |-> IF n = k THEN a ELSE b])
Array1(a) == Arr([n \in {<<"0">>} |-> a])
Array2(a, b) ==
  Arr([n \in {<<"0">>, <<"1">>} |-> IF n = <<"0">> THEN a ELSE b])

\* how deep the containers of a value nest
RECURSIVE Depth(_)
Depth(a) ==
  IF a.t \notin {"object", "array"} THEN 0
  ELSE IF DOMAIN a.p = {} THEN 1
  ELSE LET deepest == CHOOSE k \in DOMAIN a.p :
                        \A l \in DOMAIN a.p : Depth(a.p[l]) <= Depth(a.p[k])
       IN 1 + Depth(a.p[deepest])

\* the entries of the FormData a caller builds by hand or a browser builds
\* from a form: every value under a plain key, and a text and the empty
\* string under the nested paths
MaxEntries == 2

NoDate ==
  <<"2", "0", "2", "3", "-", "1", "3", "-", "0", "1", "T",
    "1", "0", ":", "3", "0", ":", "0", "0">>

EntryValues ==
  {Str(Jo), Str(Thirty), Str(<<"t", "r", "u", "e">>),
   Str(<<"f", "a", "l", "s", "e">>), Str(IsoDate), Str(NoDate), Str(<<>>),
   Str(Blank), FileOf(Jo)}

Paths ==
  {<<"a", ".", "b">>, <<"a", "[", "0", "]">>, <<"a", "[", "-", "1", "]">>,
   ProtoKey \o <<".", "a">>}

Entries ==
  {Entry(SiblingKey, value) : value \in EntryValues}
    \cup {Entry(path, value) : path \in Paths, value \in {Str(Jo), Str(<<>>)}}

\* the values a caller starts building its data from
Seeds == Leaves \cup {Obj(NoProps), Arr(NoProps)}

\* the caller puts the value built so far into an object or an array,
\* alone or beside a second property or element
Nest ==
  /\ codecPhase = "input"
  /\ Depth(codecValue) < MaxDepth
  /\ \/ \E k \in Keys : codecValue' = Object1(k, codecValue)
     \/ \E k \in Keys \ {SiblingKey} :
          codecValue' = Object2(k, codecValue, SiblingKey, SiblingLeaf)
     \/ codecValue' = Object2(SiblingKey, codecValue, DottedKey, SiblingLeaf)
     \/ codecValue' = Array1(codecValue)
     \/ codecValue' = Array2(codecValue, SiblingLeaf)
  /\ UNCHANGED <<hookVars, wrapVars, codecPhase, codecFormData, codecResult,
                 codecPrototype>>

\* objectToFormData(data) in serverActionRequest and in a caller
Encode ==
  /\ codecPhase = "input"
  /\ codecValue.t = "object"
  /\ codecFormData' = objectToFormData(codecValue, <<>>)
  /\ codecPhase' = "encoded"
  /\ UNCHANGED <<hookVars, wrapVars, codecValue, codecResult, codecPrototype>>

\* a caller or a browser form appends one more entry to its FormData
AppendEntry ==
  /\ codecPhase = "form"
  /\ Len(codecFormData) < MaxEntries
  /\ \E entry \in Entries : codecFormData' = Append(codecFormData, entry)
  /\ UNCHANGED <<hookVars, wrapVars, codecPhase, codecValue, codecResult,
                 codecPrototype>>

\* formDataToObject(formData) in withFormTransform and in a caller
Decode ==
  /\ codecPhase \in {"encoded", "form"}
  /\ LET heap == formDataToObject(codecFormData, codecPrototype)
     IN /\ codecResult' = heap.current
        /\ codecPrototype' = heap.proto
  /\ codecPhase' = "decoded"
  /\ UNCHANGED <<hookVars, wrapVars, codecValue, codecFormData>>

\* the process goes on to its next FormData: new FormData()
NewFormData ==
  /\ codecPhase = "decoded"
  /\ codecPhase' = "form"
  /\ codecValue' = Undefined
  /\ codecFormData' = <<>>
  /\ codecResult' = Undef
  /\ UNCHANGED <<hookVars, wrapVars, codecPrototype>>

CodecInit ==
  /\ HookInit
  /\ condition = Undef
  /\ cacheTime = 0
  /\ \/ codecPhase = "input" /\ codecValue \in Seeds
     \/ codecPhase = "form" /\ codecValue = Undefined
  /\ codecFormData = <<>>
  /\ codecResult = Undef
  /\ codecPrototype = ObjectPrototype
  /\ wrapOutcome = Undef
  /\ wrapResponse = Undef

CodecNext == Nest \/ Encode \/ AppendEntry \/ Decode \/ NewFormData

CodecSpec == CodecInit /\ [][CodecNext]_vars

\* -------------------------------------------------------------- wrapper
\* The names of the fields of a response and the messages of the wrapper.
OkKey == <<"o", "k">>
MessageKey == <<"m", "e", "s", "s", "a", "g", "e">>
DataKey == <<"d", "a", "t", "a">>
ErrorKey == <<"e", "r", "r", "o", "r">>

OperationCompletedSuccessfully ==
  <<"O", "p", "e", "r", "a", "t", "i", "o", "n", " ",
    "c", "o", "m", "p", "l", "e", "t", "e", "d", " ",
    "s", "u", "c", "c", "e", "s", "s", "f", "u", "l", "l", "y">>

OperationFailedMessage ==
  <<"O", "p", "e", "r", "a", "t", "i", "o", "n", " ",
    "f", "a", "i", "l", "e", "d">>

ErrorProcessingRequestMessage ==
  <<"E", "r", "r", "o", "r", " ", "p", "r", "o", "c", "e", "s", "s", "i", "n",
    "g", " ", "r", "e", "q", "u", "e", "s", "t">>

\* the text the engine gives the TypeError of a property access
CannotSetProperties ==
  <<"C", "a", "n", "n", "o", "t", " ", "s", "e", "t", " ",
    "p", "r", "o", "p", "e", "r", "t", "i", "e", "s">>

\* new Error(message)
ErrorOf(message) == [t |-> "error", v |-> message, p |-> NoProps]

\* error instanceof Error
instanceofError(thrown) == thrown.t \in {"error", "TypeError"}

\* error.message
messageOf(thrown) ==
  IF thrown.t = "TypeError" THEN CannotSetProperties ELSE thrown.v

\* whether a value counts as true in `a || b` and `if (a)`
Truthy(value) ==
  /\ value.t \notin {"undefined", "null", "NaN"}
  /\ value # Bool(FALSE)
  /\ value # Num(0)
  /\ value # Str(<<>>)

\* a || b
Or(a, b) == IF Truthy(a) THEN a ELSE b

\* key in response
In(key, response) == key \in DOMAIN response.p

\* response[key]
Get(response, key) ==
  IF key \in DOMAIN response.p THEN response.p[key] ELSE Undefined

\* an object literal of up to three fields
Literal(k1, v1, k2, v2, k3, v3) ==
  Obj([k \in {k1, k2, k3} |->
         IF k = k1 THEN v1 ELSE IF k = k2 THEN v2 ELSE v3])

\* the metadata that stands for a file; the files of the model are empty
\* and have no type
FileMetadata(file) ==
  Obj([k \in {<<"n", "a", "m", "e">>, <<"s", "i", "z", "e">>,
              <<"t", "y", "p", "e">>,
              <<"_", "i", "s", "F", "i", "l", "e">>} |->
         IF k = <<"n", "a", "m", "e">> THEN Str(file.v)
         ELSE IF k = <<"s", "i", "z", "e">> THEN Num(0)
         ELSE IF k = <<"t", "y", "p", "e">> THEN Str(<<>>)
         ELSE Bool(TRUE)])

\* variant: only the value itself is converted, not what it contains
sanitizeDataForClient_Shallow(value) ==
  IF value.t = "date" THEN Str(toISOString(value))
  ELSE IF value.t = "file" THEN FileMetadata(value)
  ELSE value

\* sanitizeDataForClient(data)
RECURSIVE sanitizeDataForClient(_)
sanitizeDataForClient(value) ==
  IF value.t \in {"null", "undefined"} THEN value
  ELSE IF value.t \in {"array", "object"}
  THEN [value EXCEPT !.p = [k \in DOMAIN value.p |->
                             sanitizeDataForClient(value.p[k])]]
  ELSE IF value.t = "date" THEN Str(toISOString(value))
  ELSE IF value.t = "file" THEN FileMetadata(value)
  ELSE value

\* what a piece of code ends with: a value returned or a value thrown
Return(value) == [kind |-> "return", val |-> value]
Throw(value) == [kind |-> "throw", val |-> value]

\* the Success the wrapper builds
okResponse(message, value) ==
  Literal(OkKey, Bool(TRUE), MessageKey, message,
          DataKey, sanitizeDataForClient(value))

\* variant: the Failure carries no error
catchError_NoError(thrown) ==
  Literal(OkKey, Bool(FALSE),
          MessageKey, IF instanceofError(thrown) THEN Str(messageOf(thrown))
                      ELSE Str(ErrorProcessingRequestMessage),
          OkKey, Bool(FALSE))

\* the catch block of withFormTransform
catchError(thrown) ==
  Literal(OkKey, Bool(FALSE),
          MessageKey, IF instanceofError(thrown) THEN Str(messageOf(thrown))
                      ELSE Str(ErrorProcessingRequestMessage),
          ErrorKey, IF instanceofError(thrown) THEN thrown
                    ELSE ErrorOf(String(thrown)))

\* result && typeof result === 'object'
typeofObject(result) ==
  result.t \in {"object", "array", "date", "file", "error", "TypeError"}

\* variant: every result of the action is wrapped as the data of a Success
detectPattern_WrapAll(result) ==
  Return(okResponse(Str(OperationCompletedSuccessfully), result))

\* the try block of withFormTransform from the result of the action on:
\* the response patterns in their order, then the default wrapping
detectPattern(result) ==
  IF typeofObject(result) /\ result.t # "array"
  THEN IF Get(result, OkKey).t = "boolean"
       THEN IF Get(result, OkKey).v
            THEN Return(okResponse(Or(Get(result, MessageKey),
                                      Str(OperationCompletedSuccessfully)),
                                   Get(result, DataKey)))
            ELSE Throw(Or(Get(result, ErrorKey),
                          ErrorOf(String(Or(Get(result, MessageKey),
                                            Str(OperationFailedMessage))))))
       ELSE IF In(DataKey, result) /\ ~In(ErrorKey, result)
       THEN Return(okResponse(Or(Get(result, MessageKey),
                                 Str(OperationCompletedSuccessfully)),
                              Get(result, DataKey)))
       ELSE IF In(ErrorKey, result) /\ ~In(DataKey, result)
       THEN Throw(IF instanceofError(Get(result, ErrorKey))
                  THEN Get(result, ErrorKey)
                  ELSE ErrorOf(String(Or(Get(result, MessageKey),
                                         Str(OperationFailedMessage)))))
       ELSE Return(okResponse(Str(OperationCompletedSuccessfully), result))
  ELSE Return(okResponse(Str(OperationCompletedSuccessfully), result))

\* variant: the exception of the action leaves the wrapped action
withFormTransform_NoCatch(parsedData, outcome) ==
  IF parsedData = TypeError THEN catchError(TypeError)
  ELSE IF outcome.kind = "throw" THEN outcome.val
  ELSE IF detectPattern(outcome.val).kind = "throw"
  THEN catchError(detectPattern(outcome.val).val)
  ELSE detectPattern(outcome.val).val

\* the function withFormTransform(serverAction) returns, on the object
\* decoded from its FormData and with what serverAction does on it
withFormTransform(parsedData, outcome) ==
  IF parsedData = TypeError THEN catchError(TypeError)
  ELSE IF outcome.kind = "throw" THEN catchError(outcome.val)
  ELSE IF detectPattern(outcome.val).kind = "throw"
  THEN catchError(detectPattern(outcome.val).val)
  ELSE detectPattern(outcome.val).val

\* the catch block of serverActionRequest
requestError(thrown) ==
  Literal(OkKey, Bool(FALSE),
          MessageKey, Str(ErrorProcessingRequestMessage),
          ErrorKey, IF instanceofError(thrown) THEN thrown
                    ELSE ErrorOf(String(thrown)))

\* ------------------------------------------------------- wrapper runs
\* A server action made by withFormTransform is called with a FormData,
\* directly or through serverActionRequest; the action wrapped in it
\* returns or throws any of ActionOutcomes.
Absent == [t |-> "absent", v |-> 0, p |-> NoProps]

\* an object with those of the four fields that are given
ResultOf(ok, message, d, e) ==
  LET given == [k \in {OkKey, MessageKey, DataKey, ErrorKey} |->
                  IF k = OkKey THEN ok
                  ELSE IF k = MessageKey THEN message
                  ELSE IF k = DataKey THEN d
                  ELSE e]
  IN Obj([k \in {n \in DOMAIN given : given[n] # Absent} |-> given[k]])

ObjectResults ==
  {ResultOf(ok, message, d, e) :
     ok \in {Absent, Bool(TRUE), Bool(FALSE), Str(<<"y">>)},
     message \in {Absent, Str(<<>>), Str(<<"m">>)},
     d \in {Absent, Num(30), DateOf(IsoDate),
            Object1(SiblingKey, Array2(DateOf(IsoDate), FileOf(Jo)))},
     e \in {Absent, Null, ErrorOf(<<"e">>), Str(<<"e">>)}}

OtherResults ==
  {Str(Jo), Num(0), Bool(TRUE), Null, Undefined, Array1(Num(30)),
   DateOf(IsoDate), FileOf(Jo),
   Array2(Object1(SiblingKey, DateOf(IsoDate)), Str(Jo))}

Thrown == {ErrorOf(<<"e">>), ErrorOf(<<>>), Str(<<"e">>)}

ActionOutcomes ==
  {Return(r) : r \in ObjectResults \cup OtherResults}
    \cup {Throw(x) : x \in Thrown}

\* the FormData the wrapped action is called with; the last one does not
\* decode
WrapForms ==
  {<<>>,
   <<Entry(SiblingKey, Str(Jo))>>,
   <<Entry(SiblingKey, Str(<<>>)), Entry(DottedKey, Str(Jo))>>}

\* the data serverActionRequest is called with: a FormData or an object,
\* or no object at all
RequestData ==
  {[kind |-> "FormData", val |-> formData] : formData \in WrapForms}
    \cup {[kind |-> "object", val |-> value] :
            value \in {Object1(SiblingKey, Str(Jo)), Obj(NoProps), Undefined}}

\* the wrapped action is called with a FormData
Invoke ==
  /\ codecPhase = "idle"
  /\ \E formData \in WrapForms, outcome \in ActionOutcomes :
       LET heap == formDataToObject(formData, codecPrototype)
       IN /\ codecFormData' = formData
          /\ codecResult' = heap.current
          /\ codecPrototype' = heap.proto
          /\ wrapOutcome' = outcome
          /\ wrapResponse' = withFormTransform(heap.current, outcome)
  /\ codecPhase' = "invoked"
  /\ codecValue' = Undefined
  /\ UNCHANGED hookVars

\* serverActionRequest(action, data) with a wrapped action: Object.keys of
\* objectToFormData throws for data that is no object, and the catch block
\* answers
Request ==
  /\ codecPhase = "idle"
  /\ \E requestData \in RequestData, outcome \in ActionOutcomes :
       LET fails ==
             requestData.kind = "object" /\ requestData.val.t # "object"
           formData == IF requestData.kind = "FormData" THEN requestData.val
                       ELSE IF fails THEN <<>>
                       ELSE objectToFormData(requestData.val, <<>>)
           heap == IF fails THEN Heap(Undefined, codecPrototype, TRUE)
                   ELSE formDataToObject(formData, codecPrototype)
       IN /\ codecValue' = IF requestData.kind = "FormData" THEN Undefined
                           ELSE requestData.val
          /\ codecFormData' = formData
          /\ codecResult' = heap.current
          /\ codecPrototype' = heap.proto
          /\ wrapOutcome' = outcome
          /\ wrapResponse' = IF fails THEN requestError(TypeError)
                             ELSE withFormTransform(heap.current, outcome)
  /\ codecPhase' = "requested"
  /\ UNCHANGED hookVars

WrapInit ==
  /\ HookInit
  /\ condition = Undef
  /\ cacheTime = 0
  /\ codecPhase = "idle"
  /\ codecValue = Undefined
  /\ codecFormData = <<>>
  /\ codecResult = Undefined
  /\ codecPrototype = ObjectPrototype
  /\ wrapOutcome = Return(Undefined)
  /\ wrapResponse = Undefined

WrapNext == Invoke \/ Request

WrapSpec == WrapInit /\ [][WrapNext]_vars

\* ------------------------------------------------------------- claims
\* the session state a result may change, and the callbacks it may invoke
Committed == <<data, error, loading, onSuccessCalls, onErrorCalls>>

\* request r is in flight and this step is its action returning
Returns(r) == r \in inflight /\ r \notin inflight'

\* C1: the result of a request that a later accepted execute superseded
\* changes none of data, error, loading and invokes no callback, whenever it
\* arrives; a result that is committed belongs to the most recently started
\* request
C1_Supersession ==
  [][\A r \in inflight :
       Returns(r) =>
         /\ r.id # abortControllerRef => UNCHANGED Committed
         /\ ~(UNCHANGED Committed) =>
              r.id = nextId - 1 /\ \A q \in inflight : q.id <= r.id]_vars

\* a superseded request has returned while its successor is in flight
C1_Witness ==
  /\ lastEvent.op = "resolve"
  /\ lastEvent.req < abortControllerRef
  /\ \E q \in inflight : q.id = abortControllerRef /\ q.id \notin aborted

\* C2: while the first request is in flight and less than dedupingInterval
\* after its call, a further call of execute does not invoke the action
InFlight == \E r \in inflight : r.id = abortControllerRef /\ r.id \notin aborted

C2_Deduplication ==
  [][(InFlight /\ loading /\ now - lastRequestTimeRef < dedupingInterval)
       => actionCalls' = actionCalls]_vars

\* C3: at most one request in flight holds a token that is not cancelled
C3_OneLiveToken ==
  Cardinality({r \in inflight : r.id \notin aborted}) <= 1

\* two requests are in flight at once
C3_Witness == Cardinality(inflight) = 2

\* C4: right after reset() loading is false
C4_ResetIdle == lastEvent.op = "reset" => ~loading

\* C5: right after reset() data, error and the remembered payload are
\* undefined, no cache timer is pending and every request in flight is
\* cancelled; a cancelled token stays cancelled and the result of a cancelled
\* request changes no state and invokes no callback
C5_ResetClears ==
  /\ [](lastEvent.op = "reset" =>
          /\ data = Undef
          /\ error = Undef
          /\ lastRequestDataRef = Undef
          /\ pendingTimers = {}
          /\ \A r \in inflight : r.id \in aborted)
  /\ [][/\ aborted \subseteq aborted'
        /\ \A r \in inflight :
             (Returns(r) /\ r.id \in aborted) => UNCHANGED Committed]_vars

\* the request that was current at a reset has returned after it
C5_Witness ==
  /\ lastEvent.op = "resolve"
  /\ lastEvent.effect = "success"
  /\ lastEvent.req = abortControllerRef
  /\ lastEvent.req \in aborted
  /\ lifecycle = "mounted"

\* C6: a Success of a request that is not cancelled stores the result's data,
\* invokes onSuccess once with that data (and not onError) and sets loading
\* false
C6_SuccessCommit ==
  [][\A r \in inflight :
       (Returns(r) /\ r.id \notin aborted /\ lastEvent'.effect = "success") =>
         /\ data' = lastEvent'.arg
         /\ onSuccessCalls' = onSuccessCalls + 1
         /\ lastEvent'.cb = lastEvent'.arg
         /\ onErrorCalls' = onErrorCalls
         /\ ~loading']_vars

\* a Success has been committed
C6_Witness ==
  /\ lastEvent.op = "resolve"
  /\ lastEvent.effect = "success"
  /\ lastEvent.req \notin aborted
  /\ data = lastEvent.arg

\* C7 as stated: a Failure of a request that is not cancelled stores the
\* failure's message as error, invokes onError once with that message, sets
\* loading false and leaves data as it was
C7_FailureCommit_Stated ==
  [][\A r \in inflight :
       (Returns(r) /\ r.id \notin aborted /\ lastEvent'.effect = "failure") =>
         /\ error' = lastEvent'.arg
         /\ onErrorCalls' = onErrorCalls + 1
         /\ lastEvent'.cb = lastEvent'.arg
         /\ onSuccessCalls' = onSuccessCalls
         /\ ~loading'
         /\ data' = data]_vars

\* C7 amended: the error stored and handed to onError is the failure's
\* message, or "Operation failed" when that message is empty
C7_FailureCommit ==
  [][\A r \in inflight :
       (Returns(r) /\ r.id \notin aborted /\ lastEvent'.effect = "failure") =>
         /\ error' = (IF lastEvent'.arg = "" THEN OperationFailed
                      ELSE lastEvent'.arg)
         /\ error' # ""
         /\ onErrorCalls' = onErrorCalls + 1
         /\ lastEvent'.cb = error'
         /\ onSuccessCalls' = onSuccessCalls
         /\ ~loading'
         /\ data' = data]_vars

\* a Failure with an empty message has been committed over existing data
C7_Witness ==
  /\ lastEvent.op = "resolve"
  /\ lastEvent.effect = "failure"
  /\ lastEvent.req \notin aborted
  /\ lastEvent.arg = ""
  /\ data # Undef

\* the step is the expiry of the cache timer t
Expires(t) ==
  t \in pendingTimers /\ t \notin pendingTimers' /\ lastEvent'.op = "expire"

\* C8: with cacheTime > 0 a committed Success leaves data defined and a
\* timer due cacheTime later; the timer clears data no sooner than cacheTime
\* after that Success, nothing but that timer or an operation that writes
\* data makes defined data undefined, and once cacheTime has elapsed with
\* the timer still pending its expiry is due and sets data undefined; with
\* cacheTime = 0 no timer is ever pending
C8_CacheExpiry ==
  /\ [](cacheTime = 0 => pendingTimers = {})
  /\ [](\A t \in pendingTimers :
          /\ t.deadline = t.setAt + cacheTime
          /\ now >= t.deadline => ENABLED TimerFire)
  /\ [][\A r \in inflight :
          (/\ Returns(r)
           /\ r.id \notin aborted
           /\ lastEvent'.effect = "success"
           /\ cacheTime > 0) =>
            /\ data' # Undef
            /\ \E t \in pendingTimers' :
                 /\ t.id = cacheTimeoutRef'
                 /\ t.id = r.id
                 /\ t.setAt = now]_vars
  /\ [][\A t \in pendingTimers :
          Expires(t) =>
            /\ t.id = committedBy
            /\ now >= t.setAt + cacheTime
            /\ data' = Undef]_vars
  /\ [][(data # Undef /\ data' = Undef) =>
          lastEvent'.op \in {"expire", "reset", "mutate", "optimisticMutate"}
       ]_vars

\* the timer set by the last committed Success has just expired
C8_Witness ==
  /\ lastEvent.op = "expire"
  /\ lastEvent.req = committedBy
  /\ cacheTime > 0
  /\ pendingTimers = {}
  /\ committedBy # NoRef
  /\ data = Undef

C10_Teardown ==
  /\ [](lifecycle = "unmounted" =>
          /\ pendingTimers = {}
          /\ \A r \in inflight : r.id \in aborted)
  /\ [][lifecycle = "unmounted" => UNCHANGED Committed]_vars

\* the request in flight at teardown has returned a Success after it
C10_Witness ==
  /\ lifecycle = "unmounted"
  /\ lastEvent.op = "resolve"
  /\ lastEvent.effect = "success"
  /\ lastEvent.req = abortControllerRef

\* C11: mutate(v) sets data to v and clears the pending cache timer, so that
\* no timer started earlier is left to clear the value; it invokes no action,
\* cancels nothing and leaves error, loading and the remembered payload as
\* they were
C11_MutateFrame ==
  /\ [](lastEvent.op = "mutate" =>
          /\ data = lastEvent.arg
          /\ pendingTimers = {}
          /\ cacheTimeoutRef = NoRef)
  /\ [][(lastEvent'.op = "mutate" /\ lastEvent' # lastEvent) =>
          UNCHANGED <<error, loading, lastRequestDataRef, actionCalls,
                      onSuccessCalls, onErrorCalls, inflight, aborted,
                      abortControllerRef>>]_vars

\* mutate has replaced the data of a Success whose timer was not yet due
C11_Witness ==
  /\ lastEvent.op = "mutate"
  /\ lastEvent.arg = "d2"
  /\ data = "d2"
  /\ committedBy # NoRef
  /\ cacheTime > 0
  /\ now < StartTime + cacheTime
  /\ onSuccessCalls = 1

\* the operations that call execute
Calls == {"execute", "refetch", "focus"}

\* C12: execute, refetch and the focus revalidation called while the
\* condition is configured and false do nothing: no action call, the payload
\* is not remembered, the request in flight is not cancelled, and data, error
\* and loading are unchanged
C12_GatedNoOp ==
  [][(/\ condition = "false"
      /\ lastEvent' # lastEvent
      /\ lastEvent'.op \in Calls) =>
        /\ lastEvent'.effect = "gated"
        /\ UNCHANGED <<stateVars, refVars, envVars, logVars>>]_vars

\* execute was called under a false condition while a request was in flight
C12_Witness ==
  /\ condition = "false"
  /\ lastEvent.op = "execute"
  /\ lastEvent.effect = "gated"
  /\ loading
  /\ \E r \in inflight : r.id = abortControllerRef /\ r.id \notin aborted

\* C13: refetch() is execute(lastRequestDataRef): unless the gate or the
\* deduplication guard of execute stops it, it invokes the action once with
\* the remembered payload (the empty object when none is remembered) and
\* keeps that payload remembered, whether or not data is defined and whether
\* or not a cache timer is pending
C13_Refetch ==
  [][(lastEvent'.op = "refetch" /\ lastEvent' # lastEvent) =>
       IF Gated \/ Deduped
       THEN actionCalls' = actionCalls
       ELSE /\ lastEvent'.effect = "accepted"
            /\ actionCalls' = actionCalls + 1
            /\ lastEvent'.arg = IF lastRequestDataRef # Undef
                                THEN lastRequestDataRef
                                ELSE EmptyPayload
            /\ lastRequestDataRef' = lastRequestDataRef]_vars

\* refetch has sent the remembered payload while the data of an earlier
\* Success was cached and its timer pending
C13_Witness ==
  /\ lastEvent.op = "refetch"
  /\ lastEvent.effect = "accepted"
  /\ lastEvent.arg = "p2"
  /\ lastRequestDataRef = "p2"
  /\ data # Undef
  /\ pendingTimers # {}

C15_MountIgnoresCondition ==
  [][(~isMountedRef /\ isMountedRef' /\ condition = "false") =>
       \A revalidateOnMount \in BOOLEAN, initialExecuteData \in InitialPayloads :
         initialExecution(TRUE, revalidateOnMount, initialExecuteData) =>
           actionCalls' = actionCalls + 1]_vars

\* C16: a focus signal under revalidateOnFocus invokes no action while the
\* session is loading and less than dedupingInterval after the last accepted
\* call, and otherwise (unless the condition gate is closed) invokes exactly
\* one; without revalidateOnFocus a signal invokes none
C16_FocusRevalidation ==
  [][\A revalidateOnFocus \in BOOLEAN :
       (Live /\ onFocus(revalidateOnFocus)) =>
         IF ~revalidateOnFocus
         THEN actionCalls' = actionCalls
         ELSE IF loading /\ now - lastRequestTimeRef < dedupingInterval
              THEN actionCalls' = actionCalls
              ELSE Gated \/ actionCalls' = actionCalls + 1]_vars

C19_ExpiryFrame ==
  [][\A t \in pendingTimers :
       Expires(t) =>
         /\ data' = Undef
         /\ UNCHANGED <<error, loading, refVars, aborted, inflight, nextId,
                        logVars>>]_vars

\* the timer of a Success has expired after a later request had failed
C19_Witness ==
  /\ lastEvent.op = "expire"
  /\ lastEvent.req = 1
  /\ data = Undef
  /\ error # Undef
  /\ onErrorCalls = 1

\* what the round trip may change at a leaf: a string that matches the date
\* pattern becomes that date, a string Number() reads becomes that number,
\* "true" and "false" become booleans, null and undefined become null
InferredLeaf(leaf) ==
  IF leaf.t \in {"null", "undefined"} THEN Null
  ELSE IF leaf.t # "string" THEN leaf
  ELSE IF matchesDate(leaf.v) THEN DateOf(leaf.v)
  ELSE IF leaf.v # <<>> /\ isNumeric(leaf.v) THEN Num(Number(leaf.v))
  ELSE IF leaf.v \in {<<"t", "r", "u", "e">>, <<"f", "a", "l", "s", "e">>}
  THEN Bool(leaf.v = <<"t", "r", "u", "e">>)
  ELSE leaf

\* the value with every leaf replaced as the round trip may replace it
RECURSIVE Inferred(_)
Inferred(a) ==
  IF a.t \in {"object", "array"}
  THEN [a EXCEPT !.p = [k \in DOMAIN a.p |-> Inferred(a.p[k])]]
  ELSE InferredLeaf(a)

\* the same with the empty string becoming null as well
RECURSIVE InferredOrNull(_)
InferredOrNull(a) ==
  IF a.t \in {"object", "array"}
  THEN [a EXCEPT !.p = [k \in DOMAIN a.p |-> InferredOrNull(a.p[k])]]
  ELSE IF a = Str(<<>>) THEN Null
  ELSE InferredLeaf(a)

\* a key the paths of the FormData carry unchanged: not empty and without
\* separator; below the top level it must not read as a number either
PlainKey(k) == k # <<>> /\ \A i \in DOMAIN k : k[i] \notin Separators

\* the values the codec carries both ways: no NaN, and every container
\* below the top level has an element, its keys being plain and, in a
\* mapping, not numeric
RECURSIVE Carried(_)
Carried(a) ==
  IF a.t \in {"object", "array"}
  THEN /\ DOMAIN a.p # {}
       /\ \A k \in DOMAIN a.p :
            /\ PlainKey(k)
            /\ a.t = "object" => ~isNumeric(k)
            /\ Carried(a.p[k])
  ELSE a.t # "NaN"

RoundTrips(a) ==
  /\ a.t = "object"
  /\ \A k \in DOMAIN a.p : PlainKey(k) /\ Carried(a.p[k])

\* C20 as stated: the decoded encoding of every value of scalars, mappings
\* and sequences is the value with its numeric, boolean and date-patterned
\* strings inferred and null for null and undefined, and nothing else
\* differs
C20_RoundTrip_Stated ==
  (codecPhase = "decoded" /\ codecValue.t = "object") =>
    codecResult = Inferred(codecValue)

\* C20: the same for the values whose keys are plain, whose nested mappings
\* have no numeric key, whose nested containers are not empty and which
\* hold no NaN, the empty string becoming null as well
C20_RoundTrip ==
  (codecPhase = "decoded" /\ RoundTrips(codecValue)) =>
    codecResult = InferredOrNull(codecValue)

\* an array of objects under a key has come back with a leaf inferred
C20_Witness ==
  /\ codecPhase = "decoded"
  /\ RoundTrips(codecValue)
  /\ codecResult # codecValue
  /\ \E k \in DOMAIN codecValue.p :
       /\ codecValue.p[k].t = "array"
       /\ \E i \in DOMAIN codecValue.p[k].p :
            codecValue.p[k].p[i].t = "object"


\* the entry a leaf has under a path: the empty string for null and
\* undefined, the ISO-8601 string of a date, the file itself, and the
\* string conversion of any other scalar
LeafEntry(leaf, path) ==
  Entry(path,
        IF leaf.t \in {"null", "undefined"} THEN Str(<<>>)
        ELSE IF leaf.t = "date" THEN Str(leaf.v)
        ELSE IF leaf.t = "file" THEN leaf
        ELSE Str(String(leaf)))

\* the entries of a value by the position of its leaves: a root key stands
\* alone, a child of a mapping adds `.key` and an element of a sequence
\* adds `[index]` to the path of its parent
RECURSIVE Named(_, _)
RECURSIVE NamedEach(_, _, _, _)
NamedEach(value, path, names, isRoot) ==
  IF names = <<>> THEN <<>>
  ELSE Named(value.p[Head(names)],
             IF isRoot THEN Head(names)
             ELSE IF value.t = "array"
             THEN path \o <<"[">> \o Head(names) \o <<"]">>
             ELSE path \o <<".">> \o Head(names))
         \o NamedEach(value, path, Tail(names), isRoot)

Named(value, path) ==
  IF value.t = "array"
  THEN NamedEach(value, path, ArrayIndices(value), FALSE)
  ELSE IF value.t = "object"
  THEN NamedEach(value, path, ObjectKeys(value), FALSE)
  ELSE <<LeafEntry(value, path)>>

\* C21: the entries of an encoded value are its leaves, each under the path
\* of its position (root key, `.key` for a mapping child, `[index]` for a
\* sequence element) and with the value of its kind
C21_PathNaming ==
  codecPhase = "encoded" =>
    codecFormData = NamedEach(codecValue, <<>>, ObjectKeys(codecValue), TRUE)

\* the number of leaves of a value
RECURSIVE LeafCount(_)
RECURSIVE LeafCountEach(_, _)
LeafCountEach(value, names) ==
  IF names = <<>> THEN 0
  ELSE LeafCount(value.p[Head(names)]) + LeafCountEach(value, Tail(names))

LeafCount(value) ==
  IF value.t \in {"object", "array"}
  THEN LeafCountEach(value, ObjectKeys(value))
  ELSE 1

\* C22: an encoded value has one entry for each of its leaves, and no two
\* of its entries have the same key
C22_UniquePaths ==
  codecPhase = "encoded" =>
    /\ Len(codecFormData) = LeafCount(codecValue)
    /\ \A i, j \in DOMAIN codecFormData :
         i # j => codecFormData[i].key # codecFormData[j].key


\* whether d is the value the rules of C23 give the value of an entry: a
\* file is kept; of the strings, one of the date-time pattern gives the date
\* of the instant written, else a non-empty numeric one its number, else
\* "true" and "false" a boolean, else the empty one null, and any other is
\* kept
TypedAsStated(value, d) ==
  IF value.t # "string" THEN d = value
  ELSE IF matchesDate(value.v)
  THEN d.t = "date" /\ d # InvalidDate /\ d = newDate(value.v)
  ELSE IF value.v # <<>> /\ isNumeric(value.v) THEN d = Num(Number(value.v))
  ELSE IF value.v \in {<<"t", "r", "u", "e">>, <<"f", "a", "l", "s", "e">>}
  THEN d = Bool(value.v = <<"t", "r", "u", "e">>)
  ELSE IF value.v = <<>> THEN d = Null
  ELSE d = value

\* C23: the value decoded under a plain key is the value of the last entry
\* of that key, typed by the first rule that matches: date-time pattern,
\* number, boolean, null for the empty string, else unchanged; a file is
\* never retyped
C23_TypeInference ==
  (/\ codecPhase = "decoded"
   /\ codecFormData # <<>>
   /\ codecFormData[Len(codecFormData)].key = SiblingKey
   /\ codecResult # TypeError) =>
    TypedAsStated(codecFormData[Len(codecFormData)].value,
                  codecResult.p[SiblingKey])


\* the pieces of the key of the j-th entry
KeysOf(j) == splitPath(codecFormData[j].key, <<>>)

\* the value a decoded value holds under a sequence of keys
RECURSIVE ValueAt(_, _)
ValueAt(value, keys) ==
  IF keys = <<>> THEN value ELSE ValueAt(value.p[Head(keys)], Tail(keys))

\* whether one sequence of keys begins with another
StartsWith(keys, prefix) ==
  Len(keys) >= Len(prefix) /\ SubSeq(keys, 1, Len(prefix)) = prefix

\* the j-th entry creates the container under the first i pieces of its
\* key, and the container stays: no earlier entry reaches that prefix and
\* no later entry assigns to it or above it
CreatesContainer(j, i) ==
  LET prefix == SubSeq(KeysOf(j), 1, i)
  IN /\ i < Len(KeysOf(j))
     /\ \A e \in 1..(j - 1) :
          ~StartsWith(KeysOf(e), prefix) /\ ~StartsWith(prefix, KeysOf(e))
     /\ \A l \in (j + 1)..Len(codecFormData) : ~StartsWith(prefix, KeysOf(l))

\* a path piece that is a non-negative integer
IsNonNegativeInteger(k) == IsDigits(k)

\* C24: a container that decode creates for a path prefix is a sequence
\* when the next piece of the path is a non-negative integer and a mapping
\* for every other piece
C24_ContainerKind ==
  (/\ codecPhase = "decoded"
   /\ codecResult # TypeError
   /\ codecPrototype = ObjectPrototype) =>
    \A j \in DOMAIN codecFormData :
      \A i \in 1..Len(KeysOf(j)) :
        CreatesContainer(j, i) =>
          ValueAt(codecResult, SubSeq(KeysOf(j), 1, i)).t =
            IF IsNonNegativeInteger(KeysOf(j)[i + 1]) THEN "array"
            ELSE "object"


\* C25: formDataToObject returns a value for every FormData, in a process
\* whose Object.prototype is untouched too: it throws for no order of the
\* entries and for no key that is a prefix of another
C25_DecodeTotal ==
  (codecPhase = "decoded" /\ codecPrototype = ObjectPrototype) =>
    codecResult # TypeError

\* C26: a call of formDataToObject writes to nothing outside its own result
\* and returns what its FormData alone determines, whatever was decoded
\* before it
C26_DecodePure ==
  [][(codecPhase # "decoded" /\ codecPhase' = "decoded") =>
       /\ codecPrototype' = codecPrototype
       /\ codecResult' =
            formDataToObject(codecFormData, ObjectPrototype).current]_vars


\* the wrapped action was called: its FormData was decoded or the decoding
\* threw
Called ==
  /\ codecPhase \in {"invoked", "requested"}
  /\ codecResult.t \in {"object", "TypeError"}

\* the wrapped action has answered for a result its action returned
Answered ==
  Called /\ codecResult.t = "object" /\ wrapOutcome.kind = "return"

IsSuccess(response) == Get(response, OkKey) = Bool(TRUE)
IsFailure(response) == Get(response, OkKey) = Bool(FALSE)

\* an object that is no array
IsRecord(result) == typeofObject(result) /\ result.t # "array"

C28_TaggedAsIs ==
  (/\ Answered
   /\ IsRecord(wrapOutcome.val)
   /\ Get(wrapOutcome.val, OkKey).t = "boolean") =>
    /\ Get(wrapResponse, OkKey) = Get(wrapOutcome.val, OkKey)
    /\ Get(wrapResponse, MessageKey) =
         IF Truthy(Get(wrapOutcome.val, MessageKey))
         THEN Get(wrapOutcome.val, MessageKey)
         ELSE IF Get(wrapOutcome.val, OkKey).v
         THEN Str(OperationCompletedSuccessfully)
         ELSE Str(OperationFailedMessage)

\* the exception that ended the decoding or the action, if one did
Raised ==
  IF codecResult.t = "TypeError" THEN Throw(TypeError)
  ELSE IF wrapOutcome.kind = "throw" THEN wrapOutcome
  ELSE Return(Undefined)

\* the message of an exception: that of an Error, the text of another value
TextOf(thrown) ==
  IF instanceofError(thrown) THEN messageOf(thrown) ELSE String(thrown)

\* C29 as stated: an exception of the decoding or of the action is answered
\* with a Failure whose message is the message of the exception
C29_NeverThrows_Stated ==
  (Called /\ Raised.kind = "throw") =>
    /\ IsFailure(wrapResponse)
    /\ Get(wrapResponse, MessageKey) = Str(TextOf(Raised.val))

\* C29: an exception of the decoding or of the action is answered with a
\* Failure: with the message of the exception and the exception as its
\* error when the exception is an Error, and with "Error processing
\* request" and an Error made of its text when it is any other value
C29_NeverThrows ==
  (Called /\ Raised.kind = "throw") =>
    /\ IsFailure(wrapResponse)
    /\ DOMAIN wrapResponse.p = {OkKey, MessageKey, ErrorKey}
    /\ IF instanceofError(Raised.val)
       THEN /\ Get(wrapResponse, MessageKey) = Str(messageOf(Raised.val))
            /\ Get(wrapResponse, ErrorKey) = Raised.val
       ELSE /\ Get(wrapResponse, MessageKey) =
                 Str(ErrorProcessingRequestMessage)
            /\ Get(wrapResponse, ErrorKey) = ErrorOf(String(Raised.val))

\* the action threw an Error after its FormData was decoded, and the
\* answer is a Failure with the message of that Error
C29_Witness ==
  /\ Called
  /\ codecResult.t = "object"
  /\ wrapOutcome = Throw(ErrorOf(<<"e">>))
  /\ IsFailure(wrapResponse)
  /\ Get(wrapResponse, MessageKey) = Str(<<"e">>)

\* C30: every response of a wrapped action and of serverActionRequest has
\* one tag and the fields of that tag only: ok true with message and data,
\* or ok false with message and error
C30_Populated ==
  codecPhase \in {"invoked", "requested"} =>
    /\ Get(wrapResponse, MessageKey).t = "string"
    /\ \/ /\ IsSuccess(wrapResponse)
          /\ DOMAIN wrapResponse.p = {OkKey, MessageKey, DataKey}
       \/ /\ IsFailure(wrapResponse)
          /\ DOMAIN wrapResponse.p = {OkKey, MessageKey, ErrorKey}

\* serverActionRequest has passed on the Success of a result that carried
\* both a data and an error field, and has answered data that is no object
\* with a Failure of its own
C30_Witness ==
  /\ codecPhase = "requested"
  /\ \/ /\ Answered
        /\ In(DataKey, wrapOutcome.val)
        /\ In(ErrorKey, wrapOutcome.val)
        /\ IsSuccess(wrapResponse)
        /\ ~In(ErrorKey, wrapResponse)
     \/ /\ codecValue = Undefined
        /\ codecResult = Undefined
        /\ IsFailure(wrapResponse)


\* whether a date or a file is left anywhere in a value
RECURSIVE HoldsDateOrFile(_)
HoldsDateOrFile(value) ==
  \/ value.t \in {"date", "file"}
  \/ /\ value.t \in {"object", "array"}
     /\ \E k \in DOMAIN value.p : HoldsDateOrFile(value.p[k])

\* sent is raw with each date replaced by its ISO string and each file by
\* its metadata, and nothing else changed
RECURSIVE SanitizedFrom(_, _)
SanitizedFrom(raw, sent) ==
  CASE raw.t = "date" -> sent = Str(raw.v)
    [] raw.t = "file" ->
         /\ sent.t = "object"
         /\ DOMAIN sent.p = {<<"n", "a", "m", "e">>, <<"s", "i", "z", "e">>,
                             <<"t", "y", "p", "e">>,
                             <<"_", "i", "s", "F", "i", "l", "e">>}
         /\ sent.p[<<"n", "a", "m", "e">>] = Str(raw.v)
         /\ sent.p[<<"s", "i", "z", "e">>].t = "number"
         /\ sent.p[<<"t", "y", "p", "e">>].t = "string"
         /\ sent.p[<<"_", "i", "s", "F", "i", "l", "e">>] = Bool(TRUE)
    [] raw.t \in {"object", "array"} ->
         /\ sent.t = raw.t
         /\ DOMAIN sent.p = DOMAIN raw.p
         /\ \A k \in DOMAIN raw.p : SanitizedFrom(raw.p[k], sent.p[k])
    [] OTHER -> sent = raw

\* C31: the data of every Success of a wrapped action holds no date and no
\* file at any depth: it is the result of the action, or the data field of
\* that result, with each date replaced by its ISO string, each file by
\* its metadata {name, size, type, _isFile: true} and nothing else changed
C31_Sanitized ==
  (Answered /\ IsSuccess(wrapResponse)) =>
    /\ ~HoldsDateOrFile(Get(wrapResponse, DataKey))
    /\ \/ SanitizedFrom(wrapOutcome.val, Get(wrapResponse, DataKey))
       \/ SanitizedFrom(Get(wrapOutcome.val, DataKey),
                        Get(wrapResponse, DataKey))

\* the action returned a date and a file inside a sequence inside a
\* mapping, and the Success carries the ISO string and the metadata there
C31_Witness ==
  /\ Answered
  /\ IsSuccess(wrapResponse)
  /\ HoldsDateOrFile(wrapOutcome.val)
  /\ Get(wrapResponse, DataKey).t = "object"
  /\ Get(Get(wrapResponse, DataKey), SiblingKey).t = "array"
  /\ Get(Get(Get(wrapResponse, DataKey), SiblingKey), <<"0">>) = Str(IsoDate)
  /\ Get(Get(Get(Get(wrapResponse, DataKey), SiblingKey), <<"1">>),
         <<"_", "i", "s", "F", "i", "l", "e">>) = Bool(TRUE)


\* the step before was the commit of a Success
SuccessCommitted ==
  /\ lastEvent.op = "resolve"
  /\ lastEvent.effect = "success"
  /\ lastEvent.cb # NoCall

\* C32: while a request that is not superseded is in flight, loading is
\* true and error is undefined; and error is undefined right after every
\* commit of a Success
C32_LoadingNoError ==
  /\ (\E r \in inflight : r.id \notin aborted) =>
       (loading /\ error = Undef)
  /\ SuccessCommitted => error = Undef

\* a request failed and set the error, the next execute cleared it, and
\* the Success of that request is committed with the error still undefined
C32_Witness ==
  /\ SuccessCommitted
  /\ onErrorCalls = 1
  /\ lastEvent.req = 2
  /\ error = Undef
  /\ ~loading


\* the entries of the FormData all lie one piece below the same parent, and
\* some of their last pieces are numeric and some are not
MixedSiblings ==
  /\ Len(codecFormData) >= 2
  /\ \A j \in DOMAIN codecFormData :
       /\ Len(KeysOf(j)) = 2
       /\ KeysOf(j)[1] = KeysOf(1)[1]
       /\ KeysOf(j)[1] # ProtoKey
  /\ \E j \in DOMAIN codecFormData :
       isNumeric(KeysOf(j)[2]) # isNumeric(KeysOf(1)[2])

\* the FormData with its j-th entry moved to the front
MovedFirst(j) ==
  <<codecFormData[j]>> \o SubSeq(codecFormData, 1, j - 1)
    \o SubSeq(codecFormData, j + 1, Len(codecFormData))

\* the container a sequence of keys of that kind creates
KindOf(k) == IF isNumeric(k) THEN "array" ELSE "object"

\* C33: when the entries under one parent mix numeric and other child
\* pieces, the parent is the container the first entry creates, every entry
\* is stored into it under its own piece, and the same entries with one of
\* the other kind moved to the front decode to a container of the other
\* kind
C33_FirstEntryDecides ==
  (codecPhase = "decoded" /\ codecPrototype = ObjectPrototype
     /\ MixedSiblings) =>
    LET parent == codecResult.p[KeysOf(1)[1]]
    IN /\ parent.t = KindOf(KeysOf(1)[2])
       /\ DOMAIN parent.p = {KeysOf(j)[2] : j \in DOMAIN codecFormData}
       /\ \A j \in DOMAIN codecFormData :
            (\A l \in (j + 1)..Len(codecFormData) :
               KeysOf(l)[2] # KeysOf(j)[2]) =>
              parent.p[KeysOf(j)[2]] = processedValue(codecFormData[j].value)
       /\ \A j \in DOMAIN codecFormData :
            KindOf(KeysOf(j)[2]) # parent.t =>
              formDataToObject(MovedFirst(j), ObjectPrototype)
                .current.p[KeysOf(1)[1]].t = KindOf(KeysOf(j)[2])

\* a[0] was decoded before a.b: a is an array that holds the element 0 and
\* the property b
C33_Witness ==
  /\ codecPhase = "decoded"
  /\ codecPrototype = ObjectPrototype
  /\ Len(codecFormData) = 2
  /\ codecFormData[1].key = <<"a", "[", "0", "]">>
  /\ codecFormData[2].key = <<"a", ".", "b">>
  /\ codecResult.p[SiblingKey].t = "array"
  /\ DOMAIN codecResult.p[SiblingKey].p = {<<"0">>, <<"b">>}


\* a key with every piece `[n]` written as `.n`
RECURSIVE Dotted(_)
Dotted(path) ==
  IF path = <<>> THEN <<>>
  ELSE IF Head(path) = "[" THEN <<".">> \o Dotted(Tail(path))
  ELSE IF Head(path) = "]" THEN Dotted(Tail(path))
  ELSE <<Head(path)>> \o Dotted(Tail(path))

\* a FormData with the keys of all its entries in the dotted notation
DottedForm(formData) ==
  [j \in DOMAIN formData |->
     Entry(Dotted(formData[j].key), formData[j].value)]

\* the positions, among the pieces of a path, of those written in
\* brackets: n pieces are complete, inPiece tells whether one is being
\* read and bracket whether it began after a `[`
RECURSIVE BracketPieces(_, _, _, _)
BracketPieces(path, n, inPiece, bracket) ==
  LET closed == IF inPiece /\ bracket THEN {n + 1} ELSE {}
  IN IF path = <<>> THEN closed
     ELSE IF Head(path) \in {".", "[", "]"}
     THEN closed \cup BracketPieces(Tail(path), IF inPiece THEN n + 1 ELSE n,
                                    FALSE, Head(path) = "[")
     ELSE BracketPieces(Tail(path), n, TRUE, bracket)

\* the positions of the pieces `[n]` of the key of the j-th entry that
\* have a parent, n a non-negative integer
IndexPieces(j) ==
  {i \in BracketPieces(codecFormData[j].key, 0, FALSE, FALSE) :
     i >= 2 /\ IsNonNegativeInteger(KeysOf(j)[i])}

\* the kind of what a value holds under a sequence of keys, if anything
RECURSIVE KindAt(_, _)
KindAt(value, keys) ==
  IF keys = <<>> THEN value.t
  ELSE IF Head(keys) \in DOMAIN value.p
  THEN KindAt(value.p[Head(keys)], Tail(keys))
  ELSE "none"

\* this step decodes a FormData
Decodes == codecPhase # "decoded" /\ codecPhase' = "decoded"

\* the FormData decodes to the same result, leaves the same
\* Object.prototype and throws alike in the two notations
SameInBothNotations ==
  LET dotted == formDataToObject(DottedForm(codecFormData), codecPrototype)
  IN /\ dotted.current = codecResult'
     /\ dotted.proto = codecPrototype'

\* C40 as stated: a FormData decodes to the same value with its pieces
\* `[n]` written as `.n`, and the parent of every such piece is an array in
\* both results
C40_SameNotation_Stated ==
  [][Decodes =>
       /\ SameInBothNotations
       /\ \A j \in DOMAIN codecFormData : \A i \in IndexPieces(j) :
            KindAt(codecResult', SubSeq(KeysOf(j), 1, i - 1)) = "array"]_vars

\* C40: a FormData decodes to the same value, or throws alike, with its
\* pieces `[n]` written as `.n`; the parent of such a piece is an array in
\* both results when the entry of the piece is the one that creates the
\* parent and no later entry replaces it
C40_SameNotation ==
  [][Decodes =>
       /\ SameInBothNotations
       /\ (codecResult' # TypeError /\ codecPrototype' = ObjectPrototype) =>
            \A j \in DOMAIN codecFormData : \A i \in IndexPieces(j) :
              CreatesContainer(j, i - 1) =>
                KindAt(codecResult', SubSeq(KeysOf(j), 1, i - 1)) = "array"]_vars

\* a[0] was decoded as the only entry under a: a is an array with the
\* element 0, as it is for the key a.0
C40_Witness ==
  /\ codecPhase = "decoded"
  /\ codecPrototype = ObjectPrototype
  /\ Len(codecFormData) >= 1
  /\ codecFormData[1].key = <<"a", "[", "0", "]">>
  /\ \A j \in DOMAIN codecFormData : codecFormData[j].key = codecFormData[1].key
  /\ codecResult.p[SiblingKey].t = "array"
  /\ DOMAIN codecResult.p[SiblingKey].p = {<<"0">>}
  /\ formDataToObject(DottedForm(codecFormData), ObjectPrototype).current
       = codecResult


\* C35: the payload of a call of execute that the deduplication guard drops
\* is remembered all the same, though the action is not invoked with it;
\* and the refetch the guards let through sends the remembered payload
C35_RememberedBeforeDedup ==
  [][/\ (lastEvent'.effect = "deduped" /\ lastEvent'.arg # Undef) =>
          /\ lastRequestDataRef' = lastEvent'.arg
          /\ actionCalls' = actionCalls
          /\ inflight' = inflight
     /\ (/\ lastEvent'.op = "refetch"
         /\ lastEvent'.effect = "accepted"
         /\ lastEvent' # lastEvent
         /\ lastRequestDataRef # Undef) =>
          lastEvent'.arg = lastRequestDataRef]_vars

\* execute("p2") was dropped while the one request made so far was in
\* flight, and p2 is the payload remembered
C35_Witness ==
  /\ lastEvent.op = "execute"
  /\ lastEvent.effect = "deduped"
  /\ lastEvent.arg = "p2"
  /\ lastRequestDataRef = "p2"
  /\ actionCalls = 1
  /\ inflight # {}


\* the last operation was a mutation of the data
Mutated == lastEvent.op \in {"mutate", "optimisticMutate"}

\* C36: mutate and optimisticMutate leave the request in flight as it is,
\* neither cancelled nor superseded; when that request returns after the
\* mutation, its Success replaces the mutated data by its own and its
\* Failure leaves the mutated data in place
C36_MutationKeepsRequest ==
  [][/\ (lastEvent' # lastEvent
           /\ lastEvent'.op \in {"mutate", "optimisticMutate"}) =>
          /\ inflight' = inflight
          /\ aborted' = aborted
          /\ abortControllerRef' = abortControllerRef
          /\ loading' = loading
     /\ Mutated =>
          \A r \in inflight :
            (Returns(r) /\ r.id \notin aborted) =>
              /\ lastEvent'.req = r.id
              /\ IF lastEvent'.effect = "success"
                 THEN data' = lastEvent'.arg /\ lastEvent'.cb = lastEvent'.arg
                 ELSE data' = data /\ error' # Undef]_vars

\* mutate has set the data while a request was in flight, and the request
\* is still in flight with its token not cancelled
C36_Witness ==
  /\ lastEvent.op = "mutate"
  /\ lastEvent.arg = "d1"
  /\ data = "d1"
  /\ loading
  /\ \E r \in inflight : r.id = abortControllerRef /\ r.id \notin aborted


\* C37: optimisticMutate leaves the cache timer of an earlier Success
\* pending and its reference in place, where mutate cancels it; the timer
\* then expires at its deadline and sets the data that optimisticMutate
\* produced to undefined
C37_OptimisticKeepsTimer ==
  [][/\ (lastEvent' # lastEvent /\ lastEvent'.op = "optimisticMutate") =>
          /\ pendingTimers' = pendingTimers
          /\ cacheTimeoutRef' = cacheTimeoutRef
     /\ (lastEvent' # lastEvent /\ lastEvent'.op = "mutate") =>
          /\ pendingTimers' = clearTimeout(pendingTimers, cacheTimeoutRef)
          /\ (cacheTimeoutRef # NoRef =>
                \A t \in pendingTimers' : t.id # cacheTimeoutRef)
     /\ \A t \in pendingTimers :
          (lastEvent.op = "optimisticMutate" /\ Expires(t)) =>
            /\ now >= t.setAt + cacheTime
            /\ data' = Undef]_vars

\* optimisticMutate has set the data while the timer of the committed
\* Success was pending, and the timer, now due, is still pending
C37_Witness ==
  /\ lastEvent.op = "optimisticMutate"
  /\ data = Optimistic
  /\ cacheTime > 0
  /\ \E t \in pendingTimers :
       /\ t.id = committedBy
       /\ t.id = cacheTimeoutRef
       /\ now >= t.deadline


\* the step commits the Success of a request
CommitsSuccess ==
  /\ lastEvent' # lastEvent
  /\ lastEvent'.op = "resolve"
  /\ lastEvent'.effect = "success"
  /\ lastEvent'.cb # NoCall

\* C38: a pending cache timer goes away only by its own expiry, by the
\* commit of a later Success, which replaces it, or by mutate, reset or the
\* unmount cleanup; an accepted execute and a Failure leave it pending, so
\* it can clear the data while a newer request is loading or has failed
C38_TimerCancelledOnlyBy ==
  [][/\ \A t \in pendingTimers :
          t \notin pendingTimers' =>
            \/ Expires(t)
            \/ CommitsSuccess /\ cacheTime > 0
            \/ lastEvent'.op \in {"mutate", "reset", "unmount"}
     /\ (CommitsSuccess /\ cacheTime > 0) =>
          \A t \in pendingTimers' : t.id = lastEvent'.req
     /\ (lastEvent' # lastEvent
           /\ \/ lastEvent'.effect = "accepted"
              \/ lastEvent'.op = "resolve" /\ lastEvent'.effect = "failure") =>
          pendingTimers' = pendingTimers]_vars

\* the timer of the first Success has expired and cleared the data while
\* the second request is in flight and loading
C38_Witness ==
  /\ lastEvent.op = "expire"
  /\ lastEvent.req = 1
  /\ committedBy = 1
  /\ data = Undef
  /\ loading
  /\ \E r \in inflight : r.id = 2 /\ r.id \notin aborted

\* the timer of the first Success has expired and cleared the data after
\* the second request failed
C38_AfterFailure ==
  /\ lastEvent.op = "expire"
  /\ lastEvent.req = 1
  /\ committedBy = 1
  /\ data = Undef
  /\ ~loading
  /\ error # Undef
  /\ inflight = {}


\* C39: refetch(), and execute() without an argument, called while no
\* payload is remembered and neither the gate nor the deduplication guard
\* stops the call, invokes the action once, with the empty object, which
\* is encoded as a FormData without entries
C39_EmptyPayloadSent ==
  [][(/\ lastEvent' # lastEvent
      /\ lastEvent'.op \in {"execute", "refetch"}
      /\ lastRequestDataRef = Undef
      /\ lastRequestDataRef' = Undef
      /\ ~Gated
      /\ ~Deduped) =>
       /\ lastEvent'.effect = "accepted"
       /\ actionCalls' = actionCalls + 1
       /\ Cardinality(inflight') = Cardinality(inflight) + 1
       /\ lastEvent'.arg = EmptyPayload
       /\ objectToFormData(Obj(NoProps), <<>>) = <<>>]_vars

\* refetch was called with no payload remembered, after an earlier request,
\* and the action was invoked a second time with the empty object
C39_Witness ==
  /\ lastEvent.op = "refetch"
  /\ lastEvent.effect = "accepted"
  /\ lastEvent.arg = EmptyPayload
  /\ lastEvent.req = 2
  /\ lastRequestDataRef = Undef
  /\ actionCalls = 2


\* C34: once every invoked action has returned, loading is false; with no
\* further operation nothing changes loading afterwards, so this is what
\* "loading eventually becomes false and stays false" asks of every state
\* in which the mounted hook has no action left to return
C34_LoadingSettles ==
  (lifecycle = "mounted" /\ inflight = {}) => ~loading

====
